---- MODULE Spec2Model ----
(***************************************************************************)
(* humilis/reference.py: the built-in reference parsers (secret, file,     *)
(* lambda, layer, boto3) and the lambda packaging pipeline.                *)
(*                                                                         *)
(* Strings are sequences of tokens (a token is a run of characters; the    *)
(* characters the code looks at, '.', '_', '#', '/', '-', are tokens of    *)
(* their own).  A path is a sequence of names, a name is a string.         *)
(***************************************************************************)
EXTENDS Naturals, Integers, Sequences, FiniteSets, TLC

VARIABLES
    dirs,       \* directories that exist on the local filesystem
    files,      \* path -> content of the regular files that exist
    s3,         \* <<bucket, key>> -> content of the uploaded objects
    keyringStore, \* <<service, key>> -> password held by the keychain
    stacks,     \* stack name -> sequence of deployed resources
    layer,      \* the Layer object of the layer declaring the reference
    config,     \* the humilis configuration (config.profile)
    pc,         \* position of the running reference parser
    req,        \* the reference being resolved: parser name and arguments
    fpath,      \* lambda_ref: local fpath
    tmppath,    \* _deploy_package/_simple_deploy_package: the moved-aside copy
    tmpdir,     \* _deploy_package/_simple_deploy_package: mkdtemp() result
    zipfile,    \* path of the archive yielded to the body
    gc,         \* value returned by _git_head()
    exc,        \* exception that left the parser (type "none": no exception)
    ret,        \* value returned by the parser
    runs,       \* number of resolutions started
    nTmp,       \* number of mkdtemp() calls made so far
    log,        \* steps taken by the current lambda resolution, in order
    src0,       \* the source files as they were when the model started
    uploads,    \* S3.cp calls that succeeded during the current resolution
    calls,      \* facade methods invoked by boto3 during the current resolution
    queries,    \* keyring.get_password calls made so far
    lastPut,    \* <<bucket, key>> of the most recent S3.cp call of the resolution
    gitOut,     \* what `git rev-parse HEAD` did for the current resolution
    handles,    \* archives open for writing
    s3path,     \* lambda_ref: local s3path
    pcount      \* standalone _preprocess_file applications made so far

vars == <<dirs, files, s3, keyringStore, stacks, layer, config, pc, req, fpath,
          tmppath, tmpdir, zipfile, gc, exc, ret, runs, nTmp, log, src0,
          uploads, calls, queries, lastPut, gitOut, handles, s3path, pcount>>

-----------------------------------------------------------------------------
(* Bounds of the model.                                                    *)

\* resolutions one behaviour performs
MaxRuns == 1
\* length of the file texts enumerated for the template preprocessor
MaxLen == 3

-----------------------------------------------------------------------------
(* Strings and paths.                                                      *)

\* Python's None
None == <<"<None>">>

\* the filesystem root, first name of every absolute path
ROOT == <<"/">>

Range(s) == {s[i] : i \in 1..Len(s)}

\* str.startswith
StartsWith(s, pre) ==
    Len(s) >= Len(pre) /\ SubSeq(s, 1, Len(pre)) = pre

\* str.find: 0-based index of the first occurrence of token t, -1 when absent
Find(s, t) ==
    IF \E i \in 1..Len(s) : s[i] = t
    THEN (CHOOSE i \in 1..Len(s) : s[i] = t /\ \A j \in 1..(i-1) : s[j] # t) - 1
    ELSE -1

\* concatenation of a sequence of strings: str.format of "{}{}{}..."
RECURSIVE Concat(_)
Concat(ss) == IF ss = <<>> THEN <<>> ELSE Head(ss) \o Concat(Tail(ss))

IsAbs(p) == Len(p) > 0 /\ p[1] = ROOT

\* os.path.join(a, b): an absolute b discards a
Join(a, b) == IF IsAbs(b) THEN b ELSE a \o b

\* os.path.basename
Basename(p) == IF Len(p) = 0 THEN <<>> ELSE p[Len(p)]

\* os.path.normpath on the names of a path: "." dropped, ".." pops
RECURSIVE NormNames(_, _)
NormNames(done, rest) ==
    IF rest = <<>> THEN done
    ELSE IF Head(rest) = <<".">> THEN NormNames(done, Tail(rest))
    ELSE IF Head(rest) = <<".", ".">> /\ Len(done) > 1
         THEN NormNames(SubSeq(done, 1, Len(done) - 1), Tail(rest))
    ELSE NormNames(Append(done, Head(rest)), Tail(rest))

\* the working directory of the process
Cwd == <<ROOT, <<"cwd">>>>

\* os.path.abspath
Abspath(p) == NormNames(<<>>, IF IsAbs(p) THEN p ELSE Cwd \o p)

\* os.path.splitext on a name: <<stem, ext>>; leading dots start no extension
SplitextName(n) ==
    LET dots == {i \in 1..Len(n) : n[i] = "." /\ \E j \in 1..(i-1) : n[j] # "."}
    IN  IF dots = {} THEN <<n, <<>>>>
        ELSE LET k == CHOOSE i \in dots : \A j \in dots : j <= i
             IN  <<SubSeq(n, 1, k - 1), SubSeq(n, k, Len(n))>>

\* os.path.splitext on a path: <<path without extension, ext>>
Splitext(p) ==
    IF Len(p) = 0 THEN <<p, <<>>>>
    ELSE LET se == SplitextName(p[Len(p)])
         IN  <<Append(SubSeq(p, 1, Len(p) - 1), se[1]), se[2]>>

\* p lies in the subtree rooted at d (d itself included)
IsUnder(p, d) == Len(p) >= Len(d) /\ SubSeq(p, 1, Len(d)) = d

\* a path relative to root
RelPath(p, root) == SubSeq(p, Len(root) + 1, Len(p))

-----------------------------------------------------------------------------
(* File contents: a text (sequence of tokens) or a zip archive (entries).  *)

Text(t) == [text |-> t, entries |-> {}]
Zip(es) == [text |-> <<>>, entries |-> es]

\* dict.get(k, default) on a mapping modelled as a function
Get(d, k, default) == IF k \in DOMAIN d THEN d[k] ELSE default

\* the empty mapping
EmptyMap == [k \in {} |-> <<>>]

\* shutil.rmtree(d, ...): d and everything below it disappears
RmtreeDirs(ds, d) == {p \in ds : ~IsUnder(p, d)}
RmtreeFiles(fs, d) == [p \in {q \in DOMAIN fs : ~IsUnder(q, d)} |-> fs[p]]

-----------------------------------------------------------------------------
(* The template preprocessor.                                              *)

\* the lines of a text, each with its line terminator, as iterating a file
RECURSIVE Lines(_)
Lines(t) ==
    IF t = <<>> THEN <<>>
    ELSE LET k == Find(t, "NL")
         IN  IF k = -1 THEN <<t>>
             ELSE <<SubSeq(t, 1, k + 1)>> \o Lines(SubSeq(t, k + 2, Len(t)))

\* the test of line 173: str.find's result used as a truth value
LineIsMarked(line) == StartsWith(line, <<"#">>) /\ Find(line, "M") # 0

_is_jinja2_template(fs, path) ==
    IF Splitext(path)[2] \in {<<".", "pyc">>} THEN FALSE
    ELSE \E i \in 1..Len(Lines(fs[path].text)) :
            LineIsMarked(Lines(fs[path].text)[i])

\* jinja2.Template(text).render(params): every {{name}} expression ("V") is
\* replaced by the value of name, an undefined name renders as nothing, and a
\* single trailing newline is dropped (keep_trailing_newline is off)
RECURSIVE Substitute(_, _)
Substitute(t, params) ==
    IF t = <<>> THEN <<>>
    ELSE (IF Head(t) = "V" THEN Get(params, "name", <<>>) ELSE <<Head(t)>>)
         \o Substitute(Tail(t), params)

Render(t, params) ==
    LET s == Substitute(t, params)
    IN  IF Len(s) > 0 /\ s[Len(s)] = "NL" THEN SubSeq(s, 1, Len(s) - 1) ELSE s

\* the files after _preprocess_file(path, params)
_preprocess_file(fs, path, params) ==
    IF ~_is_jinja2_template(fs, path) THEN fs
    ELSE [fs EXCEPT ![path] = Text(Render(fs[path].text, params))]

\* the files after _preprocess_dir(path, params): every file below path
_preprocess_dir(fs, path, params) ==
    [p \in DOMAIN fs |->
        IF IsUnder(p, path) THEN _preprocess_file(fs, p, params)[p] ELSE fs[p]]

-----------------------------------------------------------------------------
(* Results of a reference parser.                                          *)

NoExc == [type |-> "none", ref |-> <<>>, msg |-> <<>>]
Raised(t, ref, msg) == [type |-> t, ref |-> ref, msg |-> msg]

NoRet == [tag |-> "none", val |-> <<>>, s3bucket |-> <<>>, s3key |-> <<>>]
RetVal(v) == [tag |-> "value", val |-> v, s3bucket |-> <<>>, s3key |-> <<>>]
RetS3(b, k) == [tag |-> "s3path", val |-> <<>>, s3bucket |-> b, s3key |-> k]

NoReq == [parser |-> "none", path |-> <<>>, service |-> <<>>, key |-> <<>>,
          layer_name |-> <<>>, resource_name |-> <<>>, call |-> EmptyMap,
          output_attribute |-> None, output_key |-> None]

-----------------------------------------------------------------------------
(* The inputs: layers, configurations, the local tree, the remote services.*)

Basedir == <<ROOT, <<"base">>>>

LoaderParams == ("name" :> <<"x">>)

\* the Layer objects a reference is resolved for
Layers ==
    {[name |-> <<"lay">>, env_name |-> <<"env">>, env_stage |-> st,
      basedir |-> Basedir, loader_params |-> LoaderParams] :
        st \in {None, <<"dev">>}}

\* config.profile, with and without an s3prefix
Configs ==
    {[profile |-> ("bucket" :> <<"bkt">>)],
     [profile |-> ("bucket" :> <<"bkt">>) @@ ("s3prefix" :> <<"pfx", "/">>)]}

PkgDir == Basedir \o <<<<"pkg">>>>
MainPy == PkgDir \o <<<<"main", ".", "py">>>>
SetupPy == PkgDir \o <<<<"setup", ".", "py">>>>
GitDir == PkgDir \o <<<<".", "git">>>>
GitHeadFile == GitDir \o <<<<"HEAD">>>>
LibDir == PkgDir \o <<<<"lib">>>>
UtilPy == LibDir \o <<<<"util", ".", "py">>>>
CacheDir == LibDir \o <<<<"_", "_", "pycache", "_", "_">>>>
UtilPyc == CacheDir \o <<<<"util", ".", "pyc">>>>
HandlerPy == Basedir \o <<<<"h", ".", "py">>>>
HandlerZip == Basedir \o <<<<"h", ".", "zip">>>>
XTxt == Basedir \o <<<<"x", ".", "txt">>>>

\* texts a source file may hold: plain, a marked template, comments only
SrcTexts ==
    {<<"a", "NL">>,
     <<"#", "M", "NL", "V", "NL">>,
     <<"#", "a", "NL", "V", "NL">>}

\* the local tree: the package directory (with or without setup.py, with or
\* without hidden and transient subtrees), a single handler, a built zip
SrcFiles(t, hasSetup, hasHidden) ==
    (MainPy :> Text(t)) @@ (UtilPy :> Text(<<"a", "NL">>))
    @@ (HandlerPy :> Text(t))
    @@ (HandlerZip :> Zip({[arc |-> <<<<"h", ".", "py">>>>, text |-> <<"a">>]}))
    @@ (XTxt :> Text(<<"a">>))
    @@ (IF hasSetup THEN (SetupPy :> Text(<<"a", "NL">>)) ELSE EmptyMap)
    @@ (IF hasHidden
        THEN (GitHeadFile :> Text(<<"a", "NL">>)) @@ (UtilPyc :> Text(<<"#", "NL">>))
        ELSE EmptyMap)

SrcDirs(hasHidden) ==
    {<<ROOT>>, Basedir, PkgDir, LibDir, <<ROOT, <<"tmp">>>>}
    \cup (IF hasHidden THEN {GitDir, CacheDir} ELSE {})

\* the keychain: one secret stored, everything else absent
KeyringInit == (<<<<"db">>, <<"admin">>>> :> <<"s3cr3t">>)

\* keyring.get_password(service, key): the password, or None
get_password(store, service, key) == Get(store, <<service, key>>, None)

Resource(l, p) == [logical_resource_id |-> l, physical_resource_id |-> p]

\* utils.get_cf_name(env_name, layer_name, stage=...)
get_cf_name(env_name, layer_name, stage) ==
    IF stage = None THEN Concat(<<env_name, <<"-">>, layer_name>>)
    ELSE Concat(<<env_name, <<"-">>, stage, <<"-">>, layer_name>>)

\* the deployed stacks and their resources
StacksInit ==
    (get_cf_name(<<"env">>, <<"net">>, None)
        :> <<Resource(<<"A">>, <<"id-a">>), Resource(<<"B">>, <<"id-b">>)>>)
    @@ (get_cf_name(<<"env">>, <<"net">>, <<"dev">>)
        :> <<Resource(<<"A">>, <<"id-a-dev">>)>>)
    @@ (get_cf_name(<<"env">>, <<"db">>, None) :> <<>>)
    @@ (get_cf_name(<<"env">>, <<"db">>, <<"dev">>)
        :> <<Resource(<<"B">>, <<"id-b-dev">>)>>)

\* Cloudformation.get_stack_resources(stack_name)
get_stack_resources(st, stack_name) == Get(st, stack_name, <<>>)

\* Cloudformation.get_stack_resource(stack_name, resource_name)
get_stack_resource(st, stack_name, resource_name) ==
    SelectSeq(get_stack_resources(st, stack_name),
              LAMBDA r : r.logical_resource_id = resource_name)

\* mkdtemp(): a directory no earlier call returned
Digits == <<"0", "1", "2", "3", "4", "5", "6", "7", "8", "9">>
Mkdtemp(n) == <<ROOT, <<"tmp">>, <<"t", Digits[(n \div 10) + 1], Digits[(n % 10) + 1]>>>>

-----------------------------------------------------------------------------
(* _get_s3path and the file parser.                                        *)

\* an address that leaves the stage out
_get_s3path_no_stage(l, c, full_path) ==
    <<Get(c.profile, "bucket", None),
      Concat(<<Get(c.profile, "s3prefix", <<>>), l.env_name, <<"/">>, l.name, <<"/">>,
               Basename(full_path)>>)>>

\* _get_s3path(layer, config, full_path): <<s3bucket, s3key>>
_get_s3path(l, c, full_path) ==
    LET env_prefix0 == Concat(<<Get(c.profile, "s3prefix", <<>>), l.env_name, <<"/">>>>)
        env_prefix == IF l.env_stage # None
                      THEN Concat(<<env_prefix0, l.env_stage, <<"/">>>>)
                      ELSE env_prefix0
        s3key == Concat(<<env_prefix, l.name, <<"/">>, Basename(full_path)>>)
        s3bucket == Get(c.profile, "bucket", None)
    IN  <<s3bucket, s3key>>

\* the address file(layer, config, path) uploads to
FileTarget(l, c, path) == _get_s3path(l, c, Join(l.basedir, path))

\* S3.cp(full_path, s3bucket, s3key) succeeding
S3Cp(store, fs, full_path, target) ==
    [k \in DOMAIN store \cup {target} |->
        IF k = target THEN fs[full_path] ELSE store[k]]

-----------------------------------------------------------------------------
(* The parsers that run in one step: secret, file, layer, boto3.           *)

\* what a parser leaves behind: the exception raised and the value returned
Outcome(e, r) == [exc |-> e, ret |-> r]

\* secret(layer, config, service, key)
secret(store, service, key) ==
    Outcome(NoExc, RetVal(get_password(store, service, key)))

\* repr of a list of strings: ['A', 'B']
RECURSIVE ReprItems(_)
ReprItems(ss) ==
    IF ss = <<>> THEN <<>>
    ELSE <<"'">> \o Head(ss) \o <<"'">>
         \o (IF Tail(ss) = <<>> THEN <<>> ELSE <<", ">>) \o ReprItems(Tail(ss))

ReprList(ss) == <<"[">> \o ReprItems(ss) \o <<"]">>

\* a layer parser whose message names the stack but not its resources
layer_parser_short_msg(l, st, layer_name, resource_name) ==
    LET stack_name == get_cf_name(l.env_name, layer_name, l.env_stage)
        resource == get_stack_resource(st, stack_name, resource_name)
        msg == Concat(<<resource_name, <<" does not exist in stack ">>, stack_name>>)
    IN  IF Len(resource) < 1
        THEN Outcome(Raised("ReferenceError", resource_name, msg), NoRet)
        ELSE Outcome(NoExc, RetVal(resource[1].physical_resource_id))

\* layer(layer, config, layer_name, resource_name)
layer_parser(l, st, layer_name, resource_name) ==
    LET stack_name == get_cf_name(l.env_name, layer_name, l.env_stage)
        resource == get_stack_resource(st, stack_name, resource_name)
        all == get_stack_resources(st, stack_name)
        all_stack_resources == [i \in 1..Len(all) |-> all[i].logical_resource_id]
        msg == Concat(<<resource_name, <<" does not exist in stack ">>, stack_name,
                        <<" (with resources ">>, ReprList(all_stack_resources),
                        <<").">>>>)
    IN  IF Len(resource) < 1
        THEN Outcome(Raised("ReferenceError", resource_name, msg), NoRet)
        ELSE Outcome(NoExc, RetVal(resource[1].physical_resource_id))

\* the modules of boto3facade: hasattr(boto3facade, service)
FacadeModules == {<<"ec2">>, <<"s3">>}

\* str.title() of the service names in use
Title(service) ==
    IF service = <<"ec2">> THEN <<"Ec2">>
    ELSE IF service = <<"s3">> THEN <<"S3">>
    ELSE IF service = <<"foo">> THEN <<"Foo">>
    ELSE service

Item(id, fields) == [id |-> id, fields |-> fields]

\* what the methods of the Ec2 facade answer: a list of objects, an empty
\* list, one object that is no sequence
FacadeMethods ==
    ("get_vpc" :> [iter |-> TRUE,
                   items |-> <<Item(<<"vpc1">>, ("id" :> <<"vpc-1">>)),
                               Item(<<"vpc2">>, ("id" :> <<"vpc-2">>))>>])
    @@ ("get_nothing" :> [iter |-> TRUE, items |-> <<>>])
    @@ ("get_account" :> [iter |-> FALSE,
                          items |-> <<Item(<<"acct">>, ("id" :> <<"42">>))>>])

\* boto3(layer, config, service, call, output_attribute, output_key): the
\* exception, the value, and the number of facade methods invoked
boto3_parser(service, call, output_attribute, output_key) ==
    LET facade_name == Title(service)
        done(e, r, n) == [exc |-> e, ret |-> r, calls |-> n]
    IN  IF service \notin FacadeModules
        THEN IF "method" \notin DOMAIN call
             THEN done(Raised("KeyError", <<"method">>, <<>>), NoRet, 0)
             ELSE IF "parameters" \notin DOMAIN call
             THEN done(Raised("KeyError", <<"parameters">>, <<>>), NoRet, 0)
             ELSE done(Raised("ReferenceError",
                              Concat(<<<<"boto3facade", ".">>, service, <<".">>,
                                       facade_name, <<".">>, call["method"],
                                       <<": ">>, call["parameters"]>>),
                              Concat(<<<<"Service ">>, service, <<" not supported">>>>)),
                       NoRet, 0)
        ELSE IF "method" \notin DOMAIN call
             THEN done(Raised("KeyError", <<"method">>, <<>>), NoRet, 0)
        ELSE IF call["method"][1] \notin DOMAIN FacadeMethods
             THEN done(Raised("AttributeError", call["method"], <<>>), NoRet, 0)
        ELSE LET result == FacadeMethods[call["method"][1]]
             IN  IF result.iter /\ result.items = <<>>
                 THEN done(Raised("IndexError", <<>>, <<>>), NoRet, 1)
                 ELSE LET first == result.items[1]
                      IN  IF output_attribute # None
                          THEN IF output_attribute[1] \in DOMAIN first.fields
                               THEN done(NoExc, RetVal(first.fields[output_attribute[1]]), 1)
                               ELSE done(Raised("AttributeError", output_attribute, <<>>),
                                         NoRet, 1)
                          ELSE IF output_key # None
                          THEN done(NoExc, RetVal(Get(first.fields, output_key[1], None)), 1)
                          ELSE done(NoExc, RetVal(first.id), 1)

\* everything a new resolution starts from
Begin(r, fp) ==
    /\ pc = <<"none", "idle">>
    /\ runs < MaxRuns
    /\ runs' = runs + 1
    /\ req' = r
    /\ log' = <<>>
    /\ gitOut' = "none"
    /\ fpath' = fp
    /\ tmppath' = <<>>
    /\ tmpdir' = <<>>
    /\ zipfile' = <<>>
    /\ gc' = None
    /\ s3path' = NoRet
    /\ UNCHANGED <<layer, config, keyringStore, stacks, src0, pcount, handles>>

SecretRef ==
    \E key \in {<<"admin">>, <<"ghost">>} :
        LET o == secret(keyringStore, <<"db">>, key)
        IN  /\ Begin([NoReq EXCEPT !.parser = "secret", !.service = <<"db">>,
                                         !.key = key], <<>>)
            /\ exc' = o.exc
            /\ ret' = o.ret
            /\ queries' = queries + 1
            /\ lastPut' = <<>>
            /\ uploads' = 0
            /\ calls' = 0
            /\ pc' = pc
            /\ UNCHANGED <<dirs, files, s3, nTmp>>

FilePaths == {<<<<"x", ".", "txt">>>>, <<<<"pkg">>, <<"main", ".", "py">>>>}

\* file(layer, config, path); ok: S3.cp succeeds
FileRef ==
    \E path \in FilePaths, ok \in BOOLEAN :
        LET full_path == Join(layer.basedir, path)
            target == FileTarget(layer, config, path)
        IN  /\ Begin([NoReq EXCEPT !.parser = "file", !.path = path], <<>>)
            /\ lastPut' = target
            /\ IF ok /\ full_path \in DOMAIN files
               THEN /\ s3' = S3Cp(s3, files, full_path, target)
                    /\ uploads' = 1
                    /\ exc' = NoExc
                    /\ ret' = RetS3(target[1], target[2])
               ELSE /\ s3' = s3
                    /\ uploads' = 0
                    /\ exc' = Raised("S3Error", <<>>, <<>>)
                    /\ ret' = NoRet
            /\ calls' = 0
            /\ pc' = pc
            /\ UNCHANGED <<dirs, files, nTmp, queries>>

LayerRef ==
    \E ln \in {<<"net">>, <<"db">>},
       rn \in {<<"A">>, <<"C">>} :
        LET o == layer_parser(layer, stacks, ln, rn)
        IN  /\ Begin([NoReq EXCEPT !.parser = "layer", !.layer_name = ln,
                                         !.resource_name = rn], <<>>)
            /\ exc' = o.exc
            /\ ret' = o.ret
            /\ lastPut' = <<>>
            /\ uploads' = 0
            /\ calls' = 0
            /\ pc' = pc
            /\ UNCHANGED <<dirs, files, s3, nTmp, queries>>

\* the call declarations: {method, args, kwargs} and {method, parameters}
Calls ==
    {("method" :> <<m>>) @@ ("args" :> <<"[]">>) @@ ("kwargs" :> <<"{}">>) :
        m \in {"get_vpc", "get_nothing", "get_account", "get_missing"}}
    \cup {("method" :> <<"get_vpc">>) @@ ("parameters" :> <<"{}">>)}

Boto3Ref ==
    \E service \in {<<"ec2">>, <<"foo">>},
       call \in Calls,
       out \in {<<None, None>>, <<<<"id">>, None>>, <<None, <<"id">>>>,
                <<<<"arn">>, None>>} :
        LET o == boto3_parser(service, call, out[1], out[2])
        IN  /\ Begin([NoReq EXCEPT !.parser = "boto3", !.service = service,
                                         !.call = call, !.output_attribute = out[1],
                                         !.output_key = out[2]], <<>>)
            /\ exc' = o.exc
            /\ ret' = o.ret
            /\ calls' = o.calls
            /\ lastPut' = <<>>
            /\ uploads' = 0
            /\ pc' = pc
            /\ UNCHANGED <<dirs, files, s3, nTmp, queries>>

-----------------------------------------------------------------------------
(* The lambda parser and the two packaging context managers.               *)

Event(step, paths) == [step |-> step, paths |-> paths]

\* utils.move_aside(path): the directories and files of a copy of path at dst
CopyDirs(ds, path, dst) ==
    ds \cup {dst \o RelPath(d, path) : d \in {x \in ds : IsUnder(x, path)}}

CopyFiles(fs, path, dst) ==
    LET moved == {q \in DOMAIN fs : IsUnder(q, path)}
        at(p) == CHOOSE q \in moved : dst \o RelPath(q, path) = p
    IN  [p \in DOMAIN fs \cup {dst \o RelPath(q, path) : q \in moved} |->
            IF p \in DOMAIN fs THEN fs[p] ELSE fs[at(p)]]

\* the names _cleanup_dir removes: __* and .*
IsHiddenName(n) == StartsWith(n, <<"_", "_">>) \/ StartsWith(n, <<".">>)

\* a sanitizer that looks at the top level of path only
ToRemoveTopLevel(ds, path) ==
    {d \in ds : IsUnder(d, path) /\ Len(d) = Len(path) + 1 /\ IsHiddenName(Basename(d))}

\* to_remove of _cleanup_dir(path): the directories met below path by os.walk
ToRemove(ds, path) ==
    {d \in ds : IsUnder(d, path) /\ d # path /\ IsHiddenName(Basename(d))}

\* a path that rmtree of one of the directories in rm removes
Removed(p, rm) == \E d \in rm : IsUnder(p, d)

\* the files and directories after _cleanup_dir(path)
_cleanup_dir_files(ds, fs, path) ==
    [p \in {q \in DOMAIN fs : ~Removed(q, ToRemove(ds, path))} |-> fs[p]]

_cleanup_dir_dirs(ds, path) == {d \in ds : ~Removed(d, ToRemove(ds, path))}

\* the files pip.main(['install', tmppath, '-t', tmppath]) adds to tmppath
Vendored(root) ==
    (root \o <<<<"dep">>, <<"dep", ".", "py">>>> :> Text(<<"a", "NL">>))

\* what `git rev-parse HEAD` may do: print a revision, or exit non-zero
GitOutcomes == {"r1", "r2", "norepo", "failed"}

\* _git_head(): the exception raised and the value returned
_git_head(outcome) ==
    IF outcome \in {"r1", "r2"}
    THEN [raised |-> "none", value |-> <<outcome>>]
    ELSE [raised |-> "AttributeError", value |-> None]

\* suffix = ('-' + gc, '')[gc is None]
Suffix(g) == IF g = None THEN <<>> ELSE <<"-">> \o g

\* "{}{}{}".format(basename, suffix, '.zip')
ZipName(basename, suffix) == Concat(<<basename, suffix, <<".", "zip">>>>)

\* utils.zipdir(tmppath, myzip): every file below tmppath, by relative path
Zipdir(fs, root) ==
    {[arc |-> RelPath(p, root), text |-> fs[p].text] :
        p \in {q \in DOMAIN fs : IsUnder(q, root)}}

LambdaPaths == {<<<<"pkg">>>>, <<<<".">>, <<"h", ".", "py">>>>, <<<<"h", ".", "zip">>>>}

\* a dispatch that compares the extension without its dot
DispatchNoDot(ds, p) ==
    IF p \in ds THEN "dir"
    ELSE IF Splitext(p)[2] = <<"zip">> THEN "zip"
    ELSE "simple"

\* the branch lambda_ref takes for fpath
Dispatch(ds, p) ==
    IF p \in ds THEN "dir"
    ELSE IF Splitext(p)[2] = <<".", "zip">> THEN "zip"
    ELSE "simple"

\* lambda_ref up to the branch on the kind of fpath
LambdaRef ==
    \E path \in LambdaPaths :
        LET fp == Abspath(Join(layer.basedir, path))
        IN  /\ Begin([NoReq EXCEPT !.parser = "lambda", !.path = path], fp)
            /\ pc' = <<Dispatch(dirs, fp), IF Dispatch(dirs, fp) = "zip"
                                            THEN "body" ELSE "move">>
            /\ exc' = NoExc
            /\ ret' = NoRet
            /\ lastPut' = <<>>
            /\ uploads' = 0
            /\ calls' = 0
            /\ UNCHANGED <<dirs, files, s3, nTmp, queries>>

Packaging == {"dir", "simple"}

\* with utils.move_aside(path) as tmppath
MoveAside(m) ==
    /\ pc = <<m, "move">>
    /\ LET dst == Mkdtemp(nTmp) \o <<Basename(fpath)>>
       IN  /\ tmppath' = dst
           /\ dirs' = CopyDirs(dirs, fpath, dst) \cup {Mkdtemp(nTmp)}
           /\ files' = CopyFiles(files, fpath, dst)
           /\ log' = Append(log, Event("copy", {q \in DOMAIN files : IsUnder(q, fpath)}))
    /\ nTmp' = nTmp + 1
    /\ pc' = <<m, IF m = "dir" THEN "cleanup" ELSE "preprocess">>
    /\ UNCHANGED <<s3, keyringStore, stacks, layer, config, req, fpath, tmpdir,
                   zipfile, gc, exc, ret, runs, src0, uploads, calls, queries,
                   lastPut, gitOut, handles, s3path, pcount>>

\* a sanitizer run on the source path instead of the copy
SanitizeRootSource == fpath

\* the argument of _cleanup_dir in _deploy_package
SanitizeRoot == tmppath

\* _deploy_package: _cleanup_dir(tmppath)
CleanupDir ==
    /\ pc = <<"dir", "cleanup">>
    /\ dirs' = _cleanup_dir_dirs(dirs, SanitizeRoot)
    /\ files' = _cleanup_dir_files(dirs, files, SanitizeRoot)
    /\ log' = Append(log, Event("sanitize",
                {q \in DOMAIN files : Removed(q, ToRemove(dirs, SanitizeRoot))}))
    /\ pc' = <<"dir", "preprocess">>
    /\ UNCHANGED <<s3, keyringStore, stacks, layer, config, req, fpath, tmppath,
                   tmpdir, zipfile, gc, exc, ret, runs, nTmp, src0, uploads, calls,
                   queries, lastPut, gitOut, handles, s3path, pcount>>

\* _deploy_package: _preprocess_dir(tmppath, layer.loader_params)
PreprocessDir ==
    /\ pc = <<"dir", "preprocess">>
    /\ files' = _preprocess_dir(files, tmppath, layer.loader_params)
    /\ log' = Append(log, Event("preprocess",
                {q \in DOMAIN files : IsUnder(q, tmppath)}))
    /\ pc' = <<"dir", "vendor">>
    /\ UNCHANGED <<dirs, s3, keyringStore, stacks, layer, config, req, fpath,
                   tmppath, tmpdir, zipfile, gc, exc, ret, runs, nTmp, src0,
                   uploads, calls, queries, lastPut, gitOut, handles, s3path, pcount>>

\* _simple_deploy_package: _preprocess_file(tmppath, layer.loader_params)
PreprocessFile ==
    /\ pc = <<"simple", "preprocess">>
    /\ files' = _preprocess_file(files, tmppath, layer.loader_params)
    /\ log' = Append(log, Event("preprocess", {tmppath}))
    /\ pc' = <<"simple", "git">>
    /\ UNCHANGED <<dirs, s3, keyringStore, stacks, layer, config, req, fpath,
                   tmppath, tmpdir, zipfile, gc, exc, ret, runs, nTmp, src0,
                   uploads, calls, queries, lastPut, gitOut, handles, s3path, pcount>>

\* _deploy_package: pip install into tmppath when tmppath/setup.py is a file
Vendor ==
    /\ pc = <<"dir", "vendor">>
    /\ LET setup_file == tmppath \o <<<<"setup", ".", "py">>>>
       IN  IF setup_file \in DOMAIN files
           THEN /\ files' = Vendored(tmppath) @@ files
                /\ dirs' = dirs \cup {tmppath \o <<<<"dep">>>>}
                /\ log' = Append(log, Event("vendor", DOMAIN Vendored(tmppath)))
           ELSE UNCHANGED <<files, dirs, log>>
    /\ pc' = <<"dir", "git">>
    /\ UNCHANGED <<s3, keyringStore, stacks, layer, config, req, fpath, tmppath,
                   tmpdir, zipfile, gc, exc, ret, runs, nTmp, src0, uploads, calls,
                   queries, lastPut, gitOut, handles, s3path, pcount>>

\* gc = _git_head(): an exception leaves through move_aside
GitHead(m) ==
    /\ pc = <<m, "git">>
    /\ \E outcome \in GitOutcomes :
        /\ gitOut' = outcome
        /\ log' = Append(log, Event("git", {}))
        /\ IF _git_head(outcome).raised = "none"
           THEN /\ gc' = _git_head(outcome).value
                /\ exc' = exc
                /\ pc' = <<m, "zipopen">>
           ELSE /\ gc' = gc
                /\ exc' = Raised(_git_head(outcome).raised, <<>>, <<>>)
                /\ pc' = <<m, "unmove">>
    /\ UNCHANGED <<dirs, files, s3, keyringStore, stacks, layer, config, req,
                   fpath, tmppath, tmpdir, zipfile, ret, runs, nTmp, src0,
                   uploads, calls, queries, lastPut, handles, s3path, pcount>>

\* the basename the archive is named after
ArchiveBase(m, path, tmp) ==
    IF m = "dir" THEN Basename(path) ELSE Basename(Splitext(tmp)[1])

\* tmpdir = tempfile.mkdtemp(); ZipFile(zipfile, 'w') opens the archive
ZipOpen(m) ==
    /\ pc = <<m, "zipopen">>
    /\ LET td == Mkdtemp(nTmp)
           zf == td \o <<ZipName(ArchiveBase(m, fpath, tmppath), Suffix(gc))>>
       IN  /\ tmpdir' = td
           /\ zipfile' = zf
           /\ dirs' = dirs \cup {td}
           /\ files' = (zf :> Zip({})) @@ files
           /\ handles' = handles \cup {zf}
    /\ nTmp' = nTmp + 1
    /\ pc' = <<m, "zipwrite">>
    /\ UNCHANGED <<s3, keyringStore, stacks, layer, config, req, fpath, tmppath,
                   gc, exc, ret, runs, log, src0, uploads, calls, queries, lastPut,
                   gitOut, s3path, pcount>>

\* the entries written inside `with ZipFile(...) as myzip`
ArchiveEntries(m, fs, tmp) ==
    IF m = "dir" THEN Zipdir(fs, tmp)
    ELSE {[arc |-> <<Basename(Splitext(tmp)[1]) \o Splitext(tmp)[2]>>,
           text |-> fs[tmp].text]}

\* the body of `with ZipFile(...)`, its close, and the yield of zipfile
ZipWrite(m) ==
    /\ pc = <<m, "zipwrite">>
    /\ files' = [files EXCEPT ![zipfile] = Zip(ArchiveEntries(m, files, tmppath))]
    /\ handles' = handles \ {zipfile}
    /\ log' = Append(log, Event("archive",
                IF m = "dir" THEN {q \in DOMAIN files : IsUnder(q, tmppath)}
                ELSE {tmppath}))
    /\ pc' = <<m, "body">>
    /\ UNCHANGED <<dirs, s3, keyringStore, stacks, layer, config, req, fpath,
                   tmppath, tmpdir, zipfile, gc, exc, ret, runs, nTmp, src0,
                   uploads, calls, queries, lastPut, gitOut, s3path, pcount>>

\* where the body's exit leads: the zip branch returns, a package resumes the
\* generator after its yield, an exception is thrown into it at the yield
AfterBody(m, ok) ==
    IF m = "zip" THEN <<"none", "idle">>
    ELSE IF ok THEN <<m, "rmtree">>
    ELSE <<m, "unmove">>

\* the path lambda_ref hands to file(): fpath, rebound by `as fpath`
BodyPath(m) == IF m = "zip" THEN fpath ELSE zipfile

\* s3path = file(layer, config, fpath) in lambda_ref; ok: S3.cp succeeds
Body(m) ==
    /\ pc = <<m, "body">>
    /\ \E ok \in BOOLEAN :
        LET full_path == Join(layer.basedir, BodyPath(m))
            target == FileTarget(layer, config, BodyPath(m))
            done == ok /\ full_path \in DOMAIN files
        IN  /\ lastPut' = target
            /\ log' = Append(log, Event("upload", {full_path}))
            /\ IF done
               THEN /\ s3' = S3Cp(s3, files, full_path, target)
                    /\ uploads' = uploads + 1
                    /\ s3path' = RetS3(target[1], target[2])
                    /\ exc' = exc
               ELSE /\ s3' = s3
                    /\ uploads' = uploads
                    /\ s3path' = s3path
                    /\ exc' = Raised("S3Error", <<>>, <<>>)
            /\ ret' = IF m = "zip" /\ done THEN RetS3(target[1], target[2]) ELSE ret
            /\ pc' = AfterBody(m, done)
    /\ UNCHANGED <<dirs, files, keyringStore, stacks, layer, config, req, fpath,
                   tmppath, tmpdir, zipfile, gc, runs, nTmp, src0, calls, queries,
                   gitOut, handles, pcount>>

\* shutil.rmtree(tmpdir), the statement after the yield
Rmtree(m) ==
    /\ pc = <<m, "rmtree">>
    /\ dirs' = RmtreeDirs(dirs, tmpdir)
    /\ files' = RmtreeFiles(files, tmpdir)
    /\ log' = Append(log, Event("rmtmp", {tmpdir}))
    /\ pc' = <<m, "unmove">>
    /\ UNCHANGED <<s3, keyringStore, stacks, layer, config, req, fpath, tmppath,
                   tmpdir, zipfile, gc, exc, ret, runs, nTmp, src0, uploads, calls,
                   queries, lastPut, gitOut, handles, s3path, pcount>>

\* the exit of utils.move_aside, then lambda_ref returns s3path or raises
MoveAsideExit(m) ==
    /\ pc = <<m, "unmove">>
    /\ dirs' = RmtreeDirs(dirs, SubSeq(tmppath, 1, Len(tmppath) - 1))
    /\ files' = RmtreeFiles(files, SubSeq(tmppath, 1, Len(tmppath) - 1))
    /\ log' = Append(log, Event("uncopy", {tmppath}))
    /\ ret' = IF exc = NoExc THEN s3path ELSE NoRet
    /\ pc' = <<"none", "idle">>
    /\ UNCHANGED <<s3, keyringStore, stacks, layer, config, req, fpath, tmppath,
                   tmpdir, zipfile, gc, exc, runs, nTmp, src0, uploads, calls,
                   queries, lastPut, gitOut, handles, s3path, pcount>>

-----------------------------------------------------------------------------
(* The specification of the parsers.                                       *)

Init ==
    /\ \E t \in SrcTexts, hasSetup \in BOOLEAN, hasHidden \in BOOLEAN :
        /\ files = SrcFiles(t, hasSetup, hasHidden)
        /\ dirs = SrcDirs(hasHidden)
    /\ src0 = files
    /\ s3 = [k \in {} |-> Text(<<>>)]
    /\ keyringStore = KeyringInit
    /\ stacks = StacksInit
    /\ layer \in Layers
    /\ config \in Configs
    /\ pc = <<"none", "idle">>
    /\ req = NoReq
    /\ fpath = <<>>
    /\ tmppath = <<>>
    /\ tmpdir = <<>>
    /\ zipfile = <<>>
    /\ gc = None
    /\ exc = NoExc
    /\ ret = NoRet
    /\ runs = 0
    /\ nTmp = 0
    /\ log = <<>>
    /\ uploads = 0
    /\ calls = 0
    /\ queries = 0
    /\ lastPut = <<>>
    /\ gitOut = "none"
    /\ handles = {}
    /\ s3path = NoRet
    /\ pcount = 0

Next ==
    \/ SecretRef
    \/ FileRef
    \/ LayerRef
    \/ Boto3Ref
    \/ LambdaRef
    \/ \E m \in Packaging : MoveAside(m)
    \/ CleanupDir
    \/ PreprocessDir
    \/ PreprocessFile
    \/ Vendor
    \/ \E m \in Packaging : GitHead(m)
    \/ \E m \in Packaging : ZipOpen(m)
    \/ \E m \in Packaging : ZipWrite(m)
    \/ \E m \in {"dir", "simple", "zip"} : Body(m)
    \/ \E m \in Packaging : Rmtree(m)
    \/ \E m \in Packaging : MoveAsideExit(m)

Spec == Init /\ [][Next]_vars

-----------------------------------------------------------------------------
(* The specification of the template preprocessor on its own: one file of  *)
(* any text up to MaxLen tokens, preprocessed again and again.             *)

\* times _preprocess_file is applied to the same file
MaxApply == 2

Tokens == {"#", "M", "a", "V", "NL"}

RECURSIVE TextsOfLen(_)
TextsOfLen(n) ==
    IF n = 0 THEN {<<>>}
    ELSE {Append(t, k) : t \in TextsOfLen(n - 1), k \in Tokens}

AllTexts == UNION {TextsOfLen(n) : n \in 0..MaxLen}

PrePaths == {<<ROOT, <<"f", ".", "py">>>>, <<ROOT, <<"f", ".", "pyc">>>>}

InitPre ==
    /\ \E t \in AllTexts, p \in PrePaths : files = (p :> Text(t))
    /\ src0 = files
    /\ dirs = {<<ROOT>>}
    /\ s3 = [k \in {} |-> Text(<<>>)]
    /\ keyringStore = KeyringInit
    /\ stacks = StacksInit
    /\ layer \in {[l EXCEPT !.loader_params = lp] :
                    l \in {x \in Layers : x.env_stage = None},
                    lp \in {LoaderParams, EmptyMap}}
    /\ config \in {c \in Configs : DOMAIN c.profile = {"bucket"}}
    /\ pc = <<"none", "idle">>
    /\ req = NoReq
    /\ fpath = <<>>
    /\ tmppath = <<>>
    /\ tmpdir = <<>>
    /\ zipfile = <<>>
    /\ gc = None
    /\ exc = NoExc
    /\ ret = NoRet
    /\ runs = 0
    /\ nTmp = 0
    /\ log = <<>>
    /\ uploads = 0
    /\ calls = 0
    /\ queries = 0
    /\ lastPut = <<>>
    /\ gitOut = "none"
    /\ handles = {}
    /\ s3path = NoRet
    /\ pcount = 0

\* _preprocess_file(path, layer.loader_params) on the one file
PreprocessAgain ==
    /\ pcount < MaxApply
    /\ \E p \in DOMAIN files :
        files' = _preprocess_file(files, p, layer.loader_params)
    /\ pcount' = pcount + 1
    /\ UNCHANGED <<dirs, s3, keyringStore, stacks, layer, config, pc, req, fpath,
                   tmppath, tmpdir, zipfile, gc, exc, ret, runs, nTmp, log, src0,
                   uploads, calls, queries, lastPut, gitOut, handles, s3path>>

NextPre == PreprocessAgain

SpecPre == InitPre /\ [][NextPre]_vars

-----------------------------------------------------------------------------
(* The claims.                                                             *)

Idle == pc = <<"none", "idle">>
Done(parser) == Idle /\ req.parser = parser
StepsOf(l) == {l[i].step : i \in 1..Len(l)}
PathsOf(l, step) == UNION {l[i].paths : i \in {j \in 1..Len(l) : l[j].step = step}}

\* C1: once a packaging resolution has ended, normally or by an exception,
\* the temporary directory made for its archive no longer exists.
C1_TmpdirRemovedOnEveryExit ==
    (Done("lambda") /\ tmpdir # <<>>) => tmpdir \notin dirs

\* the name the claim gives the archive of a package
C2ArchiveName ==
    Concat(<<SplitextName(Basename(fpath))[1],
             IF fpath \in dirs THEN SplitextName(Basename(fpath))[2] ELSE <<>>,
             IF gitOut = "norepo" THEN <<>> ELSE <<"-", gitOut>>,
             <<".", "zip">>>>)

\* C2: when git reports no repository, _git_head raises nothing and the
\* archive is named {basename}.zip; with revision R it is {basename}-R.zip.
C2_NoRepositoryGivesNoSuffix ==
    /\ (gitOut = "norepo" /\ lastPut = <<>>) => exc = NoExc
    /\ (gitOut # "none" /\ zipfile # <<>>) => Basename(zipfile) = C2ArchiveName

\* a line that starts with the comment token and carries the marker
MarkerLine(line) == Len(line) > 0 /\ line[1] = "#" /\ "M" \in Range(line)
HasMarkerLine(t) == \E i \in 1..Len(Lines(t)) : MarkerLine(Lines(t)[i])
IsPyc(p) == Len(Basename(p)) >= 2
            /\ SubSeq(Basename(p), Len(Basename(p)) - 1, Len(Basename(p))) = <<".", "pyc">>

\* C3: a file with no marker line, and every .pyc file, is byte-identical
\* after _preprocess_file, however often it is applied.
C3_UnmarkedFileUntouched ==
    \A p \in DOMAIN src0 :
        (pcount > 0 /\ (IsPyc(p) \/ ~HasMarkerLine(src0[p].text)))
            => files[p] = src0[p]

\* C4: the files and directories under the layer's base directory are, in
\* every state of a resolution, those that were there before it started.
C4_SourceTreeUntouched ==
    /\ \A p \in DOMAIN src0 : p \in DOMAIN files /\ files[p] = src0[p]
    /\ {p \in DOMAIN files : IsUnder(p, Basedir)} = DOMAIN src0
    /\ \A d \in {Basedir, PkgDir, LibDir} : d \in dirs
    /\ (GitHeadFile \in DOMAIN src0) => (GitDir \in dirs /\ CacheDir \in dirs)

\* C4 happens: a directory package was sanitized, rendered and uploaded
C4_Witness ==
    /\ Done("lambda")
    /\ PathsOf(log, "sanitize") # {}
    /\ "vendor" \in StepsOf(log)
    /\ uploads = 1
    /\ \E p \in DOMAIN src0 : HasMarkerLine(src0[p].text)

\* the kind of path lambda_ref was given, read off the source tree
C5Kind ==
    IF fpath \in {Basedir, PkgDir, LibDir, GitDir, CacheDir} THEN "dir"
    ELSE IF Len(Basename(fpath)) >= 3
            /\ SubSeq(Basename(fpath), Len(Basename(fpath)) - 1,
                      Len(Basename(fpath))) = <<".", "zip">>
         THEN "zip"
    ELSE "simple"

\* the steps each branch of lambda_ref takes when it succeeds
C5Steps(kind) ==
    IF kind = "zip" THEN {"upload"}
    ELSE IF kind = "simple"
         THEN {"copy", "preprocess", "git", "archive", "upload", "rmtmp", "uncopy"}
    ELSE {"copy", "sanitize", "preprocess", "git", "archive", "upload", "rmtmp",
          "uncopy"}

\* C5: a directory is packaged as a directory, a .zip file is uploaded as it
\* is with no copy, no preprocessing, no archive and no temporary directory,
\* any other file is packaged as a single file; a resolution that succeeds
\* made exactly one upload and returns the address of that upload.
C5_DispatchOnPathKind ==
    /\ (req.parser = "lambda" /\ ~Idle) => pc[1] = C5Kind
    /\ (req.parser = "lambda" /\ C5Kind = "zip") =>
            /\ tmppath = <<>> /\ tmpdir = <<>> /\ zipfile = <<>>
            /\ handles = {}
            /\ StepsOf(log) \subseteq {"upload"}
    /\ (Done("lambda") /\ exc = NoExc) =>
            /\ StepsOf(log) \ {"vendor"} = C5Steps(C5Kind)
            /\ uploads = 1
            /\ ret.tag = "s3path"
            /\ <<ret.s3bucket, ret.s3key>> = lastPut
            /\ lastPut \in DOMAIN s3

\* C5 happens: a .zip path was resolved and uploaded directly
C5_Witness ==
    /\ Done("lambda") /\ exc = NoExc
    /\ C5Kind = "zip"
    /\ s3[lastPut] = src0[HandlerZip]

\* the key the claim gives a file of the layer
C6Key(name) ==
    (IF "s3prefix" \in DOMAIN config.profile THEN config.profile["s3prefix"] ELSE <<>>)
    \o layer.env_name \o <<"/">>
    \o (IF layer.env_stage = None THEN <<>> ELSE layer.env_stage \o <<"/">>)
    \o layer.name \o <<"/">> \o name

\* C6: the file parser uploads to, and returns, the configured bucket and the
\* key {prefix}{env_name}/[{env_stage}/]{layer_name}/{basename(path)}.
C6_FileAddress ==
    (Done("file") /\ exc = NoExc) =>
        /\ ret = RetS3(config.profile["bucket"], C6Key(req.path[Len(req.path)]))
        /\ lastPut = <<ret.s3bucket, ret.s3key>>
        /\ lastPut \in DOMAIN s3
        /\ s3[lastPut] = src0[Basedir \o req.path]
        /\ uploads = 1

\* C6 happens: a file of a staged layer was uploaded under a prefix
C6_Witness ==
    /\ Done("file") /\ exc = NoExc
    /\ layer.env_stage # None
    /\ "s3prefix" \in DOMAIN config.profile
    /\ Len(req.path) > 1

\* the stack the layer parser looks into
C7Stack ==
    stacks[layer.env_name \o <<"-">>
           \o (IF layer.env_stage = None THEN <<>> ELSE layer.env_stage \o <<"-">>)
           \o req.layer_name]

C7Matches ==
    {i \in 1..Len(C7Stack) : C7Stack[i].logical_resource_id = req.resource_name}

\* C7: with no match the layer parser raises ReferenceError, its message
\* holds the logical id of every resource of the stack, and nothing is
\* returned; with a match it returns the first match's physical id.
C7_LayerResource ==
    Done("layer") =>
        IF C7Matches = {}
        THEN /\ exc.type = "ReferenceError"
             /\ ret = NoRet
             /\ \A i \in 1..Len(C7Stack) :
                    \E k \in 1..Len(exc.msg) :
                        <<exc.msg[k]>> = C7Stack[i].logical_resource_id
        ELSE /\ exc = NoExc
             /\ ret = RetVal(C7Stack[CHOOSE i \in C7Matches :
                                \A j \in C7Matches : i <= j].physical_resource_id)

\* C7 happens: a resource missing from a stack of two resources
C7_Witness ==
    /\ Done("layer")
    /\ C7Matches = {}
    /\ Len(C7Stack) = 2

\* C8: the secret parser returns the stored password, and raises
\* SecretNotFoundError (returning nothing) when the store has no entry.
C8_SecretFoundOrError ==
    Done("secret") =>
        IF <<req.service, req.key>> \in DOMAIN keyringStore
        THEN exc = NoExc /\ ret = RetVal(keyringStore[<<req.service, req.key>>])
        ELSE exc.type = "SecretNotFoundError" /\ ret = NoRet

\* C9: a {service, call: {method, args, kwargs}} declaration naming a service
\* without a facade fails with the unsupported-service ReferenceError and
\* invokes no facade method.
C9_UnsupportedServiceError ==
    (/\ Done("boto3")
     /\ req.service \notin {<<"ec2">>, <<"s3">>}
     /\ DOMAIN req.call = {"method", "args", "kwargs"}) =>
        /\ exc.type = "ReferenceError"
        /\ calls = 0

\* the place of each step in the order the claim gives
C10Rank(step) ==
    CASE step = "copy" -> 1
      [] step = "sanitize" -> 2
      [] step = "preprocess" -> 3
      [] step = "vendor" -> 4
      [] step = "git" -> 5
      [] step = "archive" -> 6
      [] step = "upload" -> 7
      [] step = "rmtmp" -> 8
      [] step = "uncopy" -> 9

\* a file below root that lies in a hidden or transient subtree of root
C10InHiddenSubtree(p, root) ==
    \E i \in (Len(root) + 1)..(Len(p) - 1) :
        p[i][1] = "." \/ (Len(p[i]) >= 2 /\ p[i][1] = "_" /\ p[i][2] = "_")

\* C10: the multi-file path isolates, sanitizes, preprocesses, vendors (only
\* with a setup.py in the sanitized root), queries git, archives, uploads and
\* removes the temporary directory, in this order, skipping no step before
\* the one it is at; nothing of a removed subtree is preprocessed or
\* archived; the archive is complete and closed when the upload starts, and
\* the upload finds the temporary directory in place.
C10_MultiFileOrder ==
    (req.parser = "lambda" /\ fpath = PkgDir) =>
        /\ \A i, j \in 1..Len(log) :
                i < j => C10Rank(log[i].step) < C10Rank(log[j].step)
        /\ \A i \in 1..Len(log) :
                \A s \in {"copy", "sanitize", "preprocess", "git", "archive", "upload"} :
                    (C10Rank(s) < C10Rank(log[i].step) /\ log[i].step # "uncopy")
                        => s \in StepsOf(log)
        /\ "git" \in StepsOf(log) =>
                ("vendor" \in StepsOf(log) <=> SetupPy \in DOMAIN src0)
        /\ \A p \in PathsOf(log, "preprocess") \cup PathsOf(log, "archive") :
                /\ ~C10InHiddenSubtree(p, tmppath)
                /\ p \notin PathsOf(log, "sanitize")
        /\ "sanitize" \in StepsOf(log) =>
                PathsOf(log, "sanitize") =
                    {tmppath \o RelPath(q, fpath) :
                        q \in {x \in PathsOf(log, "copy") : C10InHiddenSubtree(x, fpath)}}
        /\ pc = <<"dir", "body">> =>
                /\ handles = {}
                /\ tmpdir \in dirs
                /\ zipfile \in DOMAIN files
                /\ {e.arc : e \in files[zipfile].entries} =
                        {RelPath(p, tmppath) : p \in PathsOf(log, "archive")}
                /\ PathsOf(log, "archive") =
                        {p \in DOMAIN files : IsUnder(p, tmppath)}
        /\ "upload" \in StepsOf(log) => "rmtmp" \notin StepsOf(SubSeq(log, 1,
                CHOOSE i \in 1..Len(log) : log[i].step = "upload"))

\* C10 happens: a package with hidden subtrees and a setup.py went all the way
C10_Witness ==
    /\ Done("lambda") /\ fpath = PkgDir
    /\ PathsOf(log, "sanitize") # {}
    /\ {"vendor", "upload", "rmtmp"} \subseteq StepsOf(log)

====
